---- MODULE Spec2Model ----
(***************************************************************************)
(* Model of normalizer.py: the DiskHealthMonitor pipeline                  *)
(*   main -> run -> load_json_data -> analyze_data -> display_report       *)
(*        -> save_report -> generate_html_report                           *)
(* A parsed JSON document is a tagged value.  A Python str is a TLA+       *)
(* string, read character by character with SubSeq.  A call that can raise *)
(* returns Ok(v) or Raise(e).                                              *)
(***************************************************************************)
EXTENDS Integers, Sequences, FiniteSets, TLC

VARIABLES
    args_html,      \* args.html, the parsed --html flag
    dir_exists,     \* os.path.exists(self.json_dir)
    listing,        \* os.listdir(self.json_dir), in enumeration order
    pc,             \* position of the one thread of control
    json_data,      \* run's local json_data (result of load_json_data)
    error_log,      \* records written through logging.error
    analyzed,       \* run's local analyzed_data: the three views
    exc,            \* the exception that left run, "" when none
    stdout,         \* what was printed
    csv_file,       \* the file at self.output_file
    html_file,      \* the file at report.html
    ret,            \* value returned by run
    tbl_data,       \* argument `data` of _generate_html_table
    tbl_headers,    \* argument `headers` of _generate_html_table
    tbl_out         \* the table returned by _generate_html_table

vars == <<args_html, dir_exists, listing, pc, json_data, error_log, analyzed,
          exc, stdout, csv_file, html_file, ret, tbl_data, tbl_headers, tbl_out>>

pipeVars == <<args_html, dir_exists, listing, json_data, error_log, analyzed,
              exc, stdout, csv_file, html_file, ret>>

tblVars == <<tbl_data, tbl_headers, tbl_out>>

----------------------------------------------------------------------------
(* JSON values as json.load returns them *)

JInt(n) == [t |-> "int", n |-> n]
JStr(s) == [t |-> "str", s |-> s]
JNull == [t |-> "null"]
JObj(f) == [t |-> "obj", f |-> f]
JList(l) == [t |-> "list", l |-> l]

EmptyDict == JObj(<<>>)

NA == JStr("N/A")

(* outcome of a Python expression that may raise *)
Ok(v) == [raised |-> FALSE, val |-> v]
Raise(e) == [raised |-> TRUE, exc |-> e]

----------------------------------------------------------------------------
(* Python built-ins used by the program *)

CharAt(s, i) == SubSeq(s, i, i)

IsDigit(c) == c \in {"0", "1", "2", "3", "4", "5", "6", "7", "8", "9"}

DigitVal(c) == CHOOSE d \in 0..9 : CharAt("0123456789", d + 1) = c

DigitChar(d) == CharAt("0123456789", d + 1)

RECURSIVE StrOfNat(_)
StrOfNat(n) == IF n < 10 THEN DigitChar(n)
               ELSE StrOfNat(n \div 10) \o DigitChar(n % 10)

(* str(x) for the values a cell can hold *)
PyStr(v) ==
    CASE v.t = "int" -> IF v.n < 0 THEN "-" \o StrOfNat(0 - v.n) ELSE StrOfNat(v.n)
      [] v.t = "str" -> v.s
      [] v.t = "null" -> "None"
      [] v.t = "obj" -> IF DOMAIN v.f = {} THEN "{}" ELSE "{...}"
      [] v.t = "list" -> IF Len(v.l) = 0 THEN "[]" ELSE "[...]"

RECURSIVE LStrip(_)
LStrip(s) == IF Len(s) > 0 /\ CharAt(s, 1) = " " THEN LStrip(SubSeq(s, 2, Len(s)))
             ELSE s

RECURSIVE RStrip(_)
RStrip(s) == IF Len(s) > 0 /\ CharAt(s, Len(s)) = " " THEN RStrip(SubSeq(s, 1, Len(s) - 1))
             ELSE s

(* the digit part of an int literal: digits, single underscores between them *)
DigitsOk(s) ==
    /\ Len(s) > 0
    /\ IsDigit(CharAt(s, 1))
    /\ IsDigit(CharAt(s, Len(s)))
    /\ \A i \in 1..Len(s) : IsDigit(CharAt(s, i)) \/ CharAt(s, i) = "_"
    /\ \A i \in 1..(Len(s) - 1) : ~(CharAt(s, i) = "_" /\ CharAt(s, i + 1) = "_")

RECURSIVE DigitsVal(_, _)
DigitsVal(s, acc) ==
    IF Len(s) = 0 THEN acc
    ELSE IF CharAt(s, 1) = "_" THEN DigitsVal(SubSeq(s, 2, Len(s)), acc)
    ELSE DigitsVal(SubSeq(s, 2, Len(s)), 10 * acc + DigitVal(CharAt(s, 1)))

(* int(s) for a str s: surrounding blanks, an optional sign, then digits *)
PyInt(s) ==
    LET b == RStrip(LStrip(s))
        signed == Len(b) > 0 /\ CharAt(b, 1) \in {"+", "-"}
        d == IF signed THEN SubSeq(b, 2, Len(b)) ELSE b
    IN IF ~DigitsOk(d) THEN Raise("ValueError")
       ELSE IF signed /\ CharAt(b, 1) = "-" THEN Ok(0 - DigitsVal(d, 0))
       ELSE Ok(DigitsVal(d, 0))

(* s.endswith(suffix) *)
EndsWith(s, suffix) ==
    /\ Len(s) >= Len(suffix)
    /\ SubSeq(s, Len(s) - Len(suffix) + 1, Len(s)) = suffix

(* `sub in s` for two strs *)
IsSubstring(sub, s) ==
    \E i \in 1..(Len(s) - Len(sub) + 1) : SubSeq(s, i, i + Len(sub) - 1) = sub

(* `key in data` *)
Contains(key, data) ==
    CASE data.t = "obj" -> Ok(key \in DOMAIN data.f)
      [] data.t = "list" -> Ok(\E i \in 1..Len(data.l) : data.l[i] = JStr(key))
      [] data.t = "str" -> Ok(Len(key) = 0 \/ IsSubstring(key, data.s))
      [] OTHER -> Raise("TypeError")

(* data[key] for a str key *)
Subscript(data, key) ==
    IF data.t = "obj"
    THEN IF key \in DOMAIN data.f THEN Ok(data.f[key]) ELSE Raise("KeyError")
    ELSE Raise("TypeError")

(* data.get(key, default) *)
Get(data, key, default) ==
    IF data.t = "obj"
    THEN Ok(IF key \in DOMAIN data.f THEN data.f[key] ELSE default)
    ELSE Raise("AttributeError")

RECURSIVE SetToSeq(_)
SetToSeq(S) == IF S = {} THEN <<>>
               ELSE LET k == CHOOSE x \in S : TRUE
                    IN <<k>> \o SetToSeq(S \ {k})

(* the elements a for loop draws from a value; a dict yields its keys *)
Iterate(v) ==
    CASE v.t = "list" -> Ok(v.l)
      [] v.t = "obj" -> LET ks == SetToSeq(DOMAIN v.f)
                        IN Ok([i \in 1..Len(ks) |-> JStr(ks[i])])
      [] v.t = "str" -> Ok([i \in 1..Len(v.s) |-> JStr(CharAt(v.s, i))])
      [] OTHER -> Raise("TypeError")

(* mutant of IsFalsy: the test `json_data is None`, which a list never passes *)
IsFalsy_IsNone(list) == Len(list) < 0

(* truth value of a list *)
IsFalsy(list) == Len(list) = 0

----------------------------------------------------------------------------
(* load_json_data *)

json_dir == "disk_exs"

(* open(file_path) followed by json.load(f), for one directory entry *)
OpenAndLoad(file) == IF file.status = "ok" THEN Ok(file.doc) ELSE Raise(file.status)

DirNotFound == [msg |-> "Directory not found", path |-> json_dir, err |-> ""]

ReadError(file_path, err) ==
    [msg |-> "Error reading JSON file", path |-> file_path, err |-> err]

(* the for loop of load_json_data from entry i on; acc holds json_data and the log *)
RECURSIVE LoadLoop(_, _, _)
LoadLoop(entries, i, acc) ==
    IF i > Len(entries) THEN acc
    ELSE LET filename == entries[i].name
         IN IF EndsWith(filename, ".json")
            THEN LET file_path == json_dir \o "/" \o filename
                     r == OpenAndLoad(entries[i])
                 IN IF r.raised
                    THEN LoadLoop(entries, i + 1,
                           [acc EXCEPT !.log = Append(@, ReadError(file_path, r.exc))])
                    ELSE LoadLoop(entries, i + 1,
                           [acc EXCEPT !.json_data = Append(@, r.val)])
            ELSE LoadLoop(entries, i + 1, acc)

load_json_data(exists, entries, log) ==
    IF ~exists
    THEN [json_data |-> <<>>, log |-> Append(log, DirNotFound)]
    ELSE LoadLoop(entries, 1, [json_data |-> <<>>, log |-> log])

----------------------------------------------------------------------------
(* extraction *)

ReallocName == "Reallocated_Sector_Ct"

(* mutant of ScanTable: the loop without its break, so the last match wins *)
RECURSIVE ScanTable_NoBreak(_)
ScanTable_NoBreak(table) ==
    IF Len(table) = 0 THEN Ok(NA)
    ELSE LET sect == Head(table)
             name == Subscript(sect, "name")
             rest == ScanTable_NoBreak(Tail(table))
         IN IF name.raised THEN name
            ELSE IF name.val = JStr(ReallocName)
            THEN LET value == Subscript(sect, "value")
                 IN IF value.raised \/ rest.raised \/ rest.val = NA THEN value ELSE rest
            ELSE rest

(* the for loop of extract_ata_data over the attribute table *)
RECURSIVE ScanTable(_)
ScanTable(table) ==
    IF Len(table) = 0 THEN Ok(NA)
    ELSE LET sect == Head(table)
             name == Subscript(sect, "name")
         IN IF name.raised THEN name
            ELSE IF name.val = JStr(ReallocName) THEN Subscript(sect, "value")
            ELSE ScanTable(Tail(table))

extract_ata_data(data, index) ==
    LET pot == Subscript(data, "power_on_time")
        p_on_h == Get(pot.val, "hours", NA)
        temp == Subscript(data, "temperature")
        current_temp == Get(temp.val, "current", NA)
        attrs == Subscript(data, "ata_smart_attributes")
        table == Subscript(attrs.val, "table")
        it == Iterate(table.val)
        reallocated_sectors == ScanTable(it.val)
    IN IF pot.raised THEN pot
       ELSE IF p_on_h.raised THEN p_on_h
       ELSE IF temp.raised THEN temp
       ELSE IF current_temp.raised THEN current_temp
       ELSE IF attrs.raised THEN attrs
       ELSE IF table.raised THEN table
       ELSE IF it.raised THEN it
       ELSE IF reallocated_sectors.raised THEN reallocated_sectors
       ELSE Ok(<<JInt(index), JStr("ATA"), p_on_h.val, current_temp.val,
                 reallocated_sectors.val>>)

extract_nvme_data(data, index) ==
    LET health_info == Subscript(data, "nvme_smart_health_information")
        p_on_h == Get(health_info.val, "power_on_hours", NA)
        current_temp == Get(health_info.val, "temperature", NA)
    IN IF health_info.raised THEN health_info
       ELSE IF p_on_h.raised THEN p_on_h
       ELSE IF current_temp.raised THEN current_temp
       ELSE Ok(<<JInt(index), JStr("NVMe"), p_on_h.val, current_temp.val, NA>>)

----------------------------------------------------------------------------
(* analyze_data *)

(* mutant of EnumerateStart: enumerate(json_data) without start=1 *)
EnumerateStart_Default == 1 - 1

(* enumerate(json_data, start=1) *)
EnumerateStart == 1

(* mutant of Family: the two tests in the other order *)
Family_NvmeFirst(data) ==
    LET isAta == Contains("ata_smart_attributes", data)
        isNvme == Contains("nvme_smart_health_information", data)
    IN IF isNvme.raised THEN isNvme
       ELSE IF isNvme.val THEN Ok("NVMe")
       ELSE IF isAta.raised THEN isAta
       ELSE IF isAta.val THEN Ok("ATA")
       ELSE Ok("")

(* the if / elif chain: which extractor a record is handed to, "" for neither *)
Family(data) ==
    LET isAta == Contains("ata_smart_attributes", data)
        isNvme == Contains("nvme_smart_health_information", data)
    IN IF isAta.raised THEN isAta
       ELSE IF isAta.val THEN Ok("ATA")
       ELSE IF isNvme.raised THEN isNvme
       ELSE IF isNvme.val THEN Ok("NVMe")
       ELSE Ok("")

(* mutant of AppendAta: a display row already in the ATA view is not added again *)
AppendAta_Dedup(views, disk_data) ==
    IF \E k \in 1..Len(views.ata) : views.ata[k] = Tail(disk_data)
    THEN [views EXCEPT !.all = Append(@, disk_data)]
    ELSE [views EXCEPT !.ata = Append(@, Tail(disk_data)), !.all = Append(@, disk_data)]

AppendAta(views, disk_data) ==
    [views EXCEPT !.ata = Append(@, Tail(disk_data)), !.all = Append(@, disk_data)]

AppendNvme(views, disk_data) ==
    [views EXCEPT !.nvme = Append(@, Tail(disk_data)), !.all = Append(@, disk_data)]

NoViews == [ata |-> <<>>, nvme |-> <<>>, all |-> <<>>]

(* the for loop of analyze_data from position i on *)
RECURSIVE AnalyzeLoop(_, _, _)
AnalyzeLoop(records, i, views) ==
    IF i > Len(records) THEN Ok(views)
    ELSE LET data == records[i]
             idx == EnumerateStart + (i - 1)
             fam == Family(data)
         IN IF fam.raised THEN fam
            ELSE IF fam.val = "ATA"
            THEN LET disk_data == extract_ata_data(data, idx)
                 IN IF disk_data.raised THEN disk_data
                    ELSE AnalyzeLoop(records, i + 1, AppendAta(views, disk_data.val))
            ELSE IF fam.val = "NVMe"
            THEN LET disk_data == extract_nvme_data(data, idx)
                 IN IF disk_data.raised THEN disk_data
                    ELSE AnalyzeLoop(records, i + 1, AppendNvme(views, disk_data.val))
            ELSE AnalyzeLoop(records, i + 1, views)

analyze_data(records) == AnalyzeLoop(records, 1, NoViews)

----------------------------------------------------------------------------
(* presenters *)

AtaHeaders == <<"Type", "Power-on Hours", "Temperature", "Reallocated Sectors">>

NvmeHeaders == <<"Type", "Power-on Hours", "Temperature">>

CsvHeader == <<"# Device", "Type", "Power-on Hours", "Temperature", "Reallocated Sectors">>

Line(text) == [text |-> text, headers |-> <<>>, rows |-> <<>>]

(* tabulate(rows, headers=..., tablefmt="grid"), kept as its arguments *)
Tabulate(rows, headers) == [text |-> "", headers |-> headers, rows |-> rows]

display_report(analyzed_data) ==
    << Line("### ATA DEVICES ###"),
       IF ~IsFalsy(analyzed_data.ata) THEN Tabulate(analyzed_data.ata, AtaHeaders)
       ELSE Line("No ATA devices found."),
       Line("### NVMe DEVICES ###"),
       IF ~IsFalsy(analyzed_data.nvme) THEN Tabulate(analyzed_data.nvme, NvmeHeaders)
       ELSE Line("No NVMe devices found.") >>

(* the field csv.writer writes for one value: None becomes the empty field *)
CsvField(v) == IF v.t = "null" THEN "" ELSE PyStr(v)

save_report(analyzed_data) ==
    <<CsvHeader>> \o
    [k \in 1..Len(analyzed_data.all) |->
        [j \in 1..Len(analyzed_data.all[k]) |-> CsvField(analyzed_data.all[k][j])]]

(* mutant of CellClass: the three comparisons made inclusive *)
CellClass_Inclusive(i, cell, headers) ==
    LET cell_str == PyStr(cell)
        n == PyInt(cell_str)
    IN IF i = 3 /\ i < Len(headers) /\ headers[i + 1] = "Reallocated Sectors"
          /\ cell_str # "N/A" /\ cell_str # "0"
       THEN IF n.raised THEN "" ELSE IF n.val >= 0 THEN "warning" ELSE ""
       ELSE IF i = 1 /\ i < Len(headers) /\ headers[i + 1] = "Power-on Hours"
               /\ cell_str # "N/A"
       THEN IF n.raised THEN "" ELSE IF n.val >= 30000 THEN "warning" ELSE ""
       ELSE IF i = 2 /\ i < Len(headers) /\ headers[i + 1] = "Temperature"
               /\ cell_str # "N/A"
       THEN IF n.raised THEN "" ELSE IF n.val >= 50 THEN "danger" ELSE ""
       ELSE ""

(* the class of the <td> written for cell number i (0-based) of a row *)
CellClass(i, cell, headers) ==
    LET cell_str == PyStr(cell)
        n == PyInt(cell_str)
    IN IF i = 3 /\ i < Len(headers) /\ headers[i + 1] = "Reallocated Sectors"
          /\ cell_str # "N/A" /\ cell_str # "0"
       THEN IF n.raised THEN "" ELSE IF n.val > 0 THEN "warning" ELSE ""
       ELSE IF i = 1 /\ i < Len(headers) /\ headers[i + 1] = "Power-on Hours"
               /\ cell_str # "N/A"
       THEN IF n.raised THEN "" ELSE IF n.val > 30000 THEN "warning" ELSE ""
       ELSE IF i = 2 /\ i < Len(headers) /\ headers[i + 1] = "Temperature"
               /\ cell_str # "N/A"
       THEN IF n.raised THEN "" ELSE IF n.val > 50 THEN "danger" ELSE ""
       ELSE ""

(* the <td> elements of one <tr>; cells without a header are skipped *)
HtmlRow(row, headers) ==
    LET shown == SelectSeq([j \in 1..Len(row) |-> j - 1], LAMBDA i : ~(i >= Len(headers)))
    IN [k \in 1..Len(shown) |->
          [class |-> CellClass(shown[k], row[shown[k] + 1], headers),
           text |-> PyStr(row[shown[k] + 1])]]

_generate_html_table(data, headers) ==
    [th |-> headers, tr |-> [k \in 1..Len(data) |-> HtmlRow(data[k], headers)]]

NoTable(text) == [th |-> <<>>, tr |-> <<>>, p |-> text]

generate_html_report(analyzed_data) ==
    [ata |-> IF IsFalsy(analyzed_data.ata) THEN NoTable("No ATA devices found.")
             ELSE _generate_html_table(analyzed_data.ata, AtaHeaders) @@ [p |-> ""],
     nvme |-> IF IsFalsy(analyzed_data.nvme) THEN NoTable("No NVMe devices found.")
              ELSE _generate_html_table(analyzed_data.nvme, NvmeHeaders) @@ [p |-> ""]]

----------------------------------------------------------------------------
(* the directories and files the program is run on *)

MaxFiles == 3

Attr(name, value) == JObj([name |-> JStr(name), value |-> value])

Hours(v) == JObj([hours |-> v])

Current(v) == JObj([current |-> v])

AtaDoc(table, pot, temp) ==
    JObj([ata_smart_attributes |-> JObj([table |-> JList(table)]),
          power_on_time |-> pot, temperature |-> temp])

NvmeDoc(health_info) == JObj([nvme_smart_health_information |-> health_info])

AtaFlagged ==
    AtaDoc(<<Attr("Raw_Read_Error_Rate", JInt(0)), Attr(ReallocName, JInt(3)),
             Attr(ReallocName, JInt(0))>>, Hours(JInt(40000)), Current(JInt(55)))

AtaHealthy ==
    AtaDoc(<<Attr("Power_Cycle_Count", JInt(12))>>, Hours(JInt(100)), Current(JInt(30)))

AtaZero == AtaDoc(<<Attr(ReallocName, JInt(0))>>, Hours(JInt(30000)), Current(JInt(50)))

AtaNoSubfields == AtaDoc(<<>>, EmptyDict, EmptyDict)

AtaNoPowerOnTime ==
    JObj([ata_smart_attributes |-> JObj([table |-> JList(<<Attr(ReallocName, JInt(3))>>)]),
          temperature |-> Current(JInt(30))])

AtaNoTemperature ==
    JObj([ata_smart_attributes |-> JObj([table |-> JList(<<Attr(ReallocName, JInt(3))>>)]),
          power_on_time |-> Hours(JInt(100))])

AtaNoValue ==
    AtaDoc(<<JObj([name |-> JStr(ReallocName)])>>, Hours(JInt(100)), Current(JInt(30)))

AtaNonNumeric ==
    AtaDoc(<<Attr(ReallocName, EmptyDict)>>, Hours(JStr("40000")), Current(JNull))

AtaAndNvme ==
    JObj([ata_smart_attributes |-> JObj([table |-> JList(<<Attr(ReallocName, JInt(7))>>)]),
          power_on_time |-> Hours(JInt(200)), temperature |-> Current(JInt(40)),
          nvme_smart_health_information |->
              JObj([power_on_hours |-> JInt(100), temperature |-> JInt(30)])])

NvmeHealthy == NvmeDoc(JObj([power_on_hours |-> JInt(100), temperature |-> JInt(30)]))

NvmeFlagged == NvmeDoc(JObj([power_on_hours |-> JInt(30001), temperature |-> JInt(51)]))

NvmeNoFields == NvmeDoc(EmptyDict)

NvmeNonNumeric == NvmeDoc(JObj([power_on_hours |-> JStr("unknown"), temperature |-> JNull]))

UnknownShape == JObj([device |-> JObj([name |-> JStr("/dev/sda")])])

Documents ==
    { AtaFlagged, AtaHealthy, AtaZero, AtaNoSubfields, AtaNoPowerOnTime, AtaNoTemperature,
      AtaNoValue, AtaNonNumeric, AtaAndNvme, NvmeHealthy, NvmeFlagged, NvmeNoFields,
      NvmeNonNumeric, UnknownShape, JInt(5), JList(<<>>) }

(* what a directory entry can be: its name's suffix, and what reading it gives *)
FileKinds ==
    [ext : {".json"}, status : {"ok"}, doc : Documents]
    \cup [ext : {".json"}, status : {"OSError", "UnicodeDecodeError", "JSONDecodeError"},
          doc : {JNull}]
    \cup [ext : {".JSON", ".txt"}, status : {"ok"}, doc : {AtaHealthy}]

(* entry number i of the listing; names in one directory differ *)
MkFile(i, kind) ==
    [name |-> "disk" \o StrOfNat(i) \o kind.ext, status |-> kind.status, doc |-> kind.doc]

----------------------------------------------------------------------------
(* the program *)

NoFile == [written |-> FALSE, content |-> <<>>]

Init ==
    /\ args_html \in BOOLEAN
    /\ dir_exists \in BOOLEAN
    /\ \E n \in 0..MaxFiles : \E kinds \in [1..n -> FileKinds] :
          listing = [i \in 1..n |-> MkFile(i, kinds[i])]
    /\ dir_exists \/ listing = <<>>
    /\ pc = "main"
    /\ json_data = <<>>
    /\ error_log = <<>>
    /\ analyzed = NoViews
    /\ exc = ""
    /\ stdout = <<>>
    /\ csv_file = NoFile
    /\ html_file = NoFile
    /\ ret = "unset"
    /\ tbl_data = <<>>
    /\ tbl_headers = <<>>
    /\ tbl_out = <<>>

(* main: parse the arguments, construct the monitor, call run *)
Main ==
    /\ pc = "main"
    /\ pc' = "load"
    /\ UNCHANGED <<pipeVars, tblVars>>

(* run: json_data = self.load_json_data() *)
LoadJsonData ==
    /\ pc = "load"
    /\ LET r == load_json_data(dir_exists, listing, error_log)
       IN /\ json_data' = r.json_data
          /\ error_log' = r.log
    /\ pc' = "loaded"
    /\ UNCHANGED <<args_html, dir_exists, listing, analyzed, exc, stdout, csv_file,
                   html_file, ret, tblVars>>

(* run: if not json_data: print(...); return False *)
RunNoData ==
    /\ pc = "loaded"
    /\ IsFalsy(json_data)
    /\ stdout' = Append(stdout, Line("No data found. Verify the JSON files directory."))
    /\ ret' = "False"
    /\ pc' = "exit"
    /\ UNCHANGED <<args_html, dir_exists, listing, json_data, error_log, analyzed, exc,
                   csv_file, html_file, tblVars>>

(* run: analyzed_data = self.analyze_data(json_data); an exception leaves run and main *)
AnalyzeData ==
    /\ pc = "loaded"
    /\ ~IsFalsy(json_data)
    /\ LET r == analyze_data(json_data)
       IN IF r.raised
          THEN /\ exc' = r.exc
               /\ pc' = "raised"
               /\ UNCHANGED analyzed
          ELSE /\ analyzed' = r.val
               /\ pc' = "display"
               /\ UNCHANGED exc
    /\ UNCHANGED <<args_html, dir_exists, listing, json_data, error_log, stdout, csv_file,
                   html_file, ret, tblVars>>

(* run: self.display_report(analyzed_data) *)
DisplayReport ==
    /\ pc = "display"
    /\ stdout' = stdout \o display_report(analyzed)
    /\ pc' = "save"
    /\ UNCHANGED <<args_html, dir_exists, listing, json_data, error_log, analyzed, exc,
                   csv_file, html_file, ret, tblVars>>

(* run: self.save_report(analyzed_data) *)
SaveReport ==
    /\ pc = "save"
    /\ csv_file' = [written |-> TRUE, content |-> save_report(analyzed)]
    /\ stdout' = Append(stdout, Line("Report saved to report.csv!"))
    /\ pc' = "html"
    /\ UNCHANGED <<args_html, dir_exists, listing, json_data, error_log, analyzed, exc,
                   html_file, ret, tblVars>>

(* run: self.generate_html_report(analyzed_data); return True *)
GenerateHtmlReport ==
    /\ pc = "html"
    /\ html_file' = [written |-> TRUE, content |-> generate_html_report(analyzed)]
    /\ stdout' = Append(stdout, Line("HTML report saved to report.html!"))
    /\ ret' = "True"
    /\ pc' = "exit"
    /\ UNCHANGED <<args_html, dir_exists, listing, json_data, error_log, analyzed, exc,
                   csv_file, tblVars>>

Next ==
    \/ Main
    \/ LoadJsonData
    \/ RunNoData
    \/ AnalyzeData
    \/ DisplayReport
    \/ SaveReport
    \/ GenerateHtmlReport

Spec == Init /\ [][Next]_vars

----------------------------------------------------------------------------
(* _generate_html_table called on its own *)

TableCells ==
    { JInt(0), JInt(1), JInt(50), JInt(51), JInt(30000), JInt(30001), JInt(0 - 5),
      NA, JStr("0"), JStr("00"), JStr("30001"), JStr(" 51 "), JStr("+51"), JStr("-51"),
      JStr("5_1"), JStr("5__1"), JStr("51.0"), JStr("abc"), JStr(""),
      JNull, EmptyDict }

TableRows == { <<JStr("ATA"), a, b, c>> : a \in TableCells, b \in TableCells, c \in TableCells }

FlaggedRow == <<JStr("ATA"), JInt(40000), JInt(55), JInt(3)>>

InitTable ==
    /\ pc = "table"
    /\ \E row \in TableRows :
          tbl_data \in { <<row>>, <<FlaggedRow, row>>, <<row, FlaggedRow>> }
    /\ tbl_headers \in {AtaHeaders, NvmeHeaders}
    /\ tbl_out = <<>>
    /\ args_html = FALSE
    /\ dir_exists = FALSE
    /\ listing = <<>>
    /\ json_data = <<>>
    /\ error_log = <<>>
    /\ analyzed = NoViews
    /\ exc = ""
    /\ stdout = <<>>
    /\ csv_file = NoFile
    /\ html_file = NoFile
    /\ ret = "unset"

GenerateHtmlTable ==
    /\ pc = "table"
    /\ tbl_out' = _generate_html_table(tbl_data, tbl_headers).tr
    /\ pc' = "table_done"
    /\ UNCHANGED <<pipeVars, tbl_data, tbl_headers>>

NextTable == GenerateHtmlTable

SpecTable == InitTable /\ [][NextTable]_vars

----------------------------------------------------------------------------
(* properties *)

(* analyze_data has returned its three views to run *)
Analyzed == pc \in {"display", "save", "html"} \/ (pc = "exit" /\ ret = "True")

HasKey(d, k) == d.t = "obj" /\ k \in DOMAIN d.f

AtaShape(d) == HasKey(d, "ata_smart_attributes")

NvmeShape(d) == ~AtaShape(d) /\ HasKey(d, "nvme_smart_health_information")

SeqNo(row) == row[1].n

SeqNos == { SeqNo(analyzed.all[k]) : k \in 1..Len(analyzed.all) }

(* C1: once analyze_data has returned, the sequence numbers of the full view
   are strictly increasing, each is the 1-based position in json_data of the
   record the row was extracted from, and the positions of 1..N that are
   missing are exactly those of the records of unrecognized shape. *)
C1_SequenceNumbers ==
    Analyzed =>
      /\ \A k \in 1..(Len(analyzed.all) - 1) :
            SeqNo(analyzed.all[k]) < SeqNo(analyzed.all[k + 1])
      /\ SeqNos = { i \in 1..Len(json_data) : AtaShape(json_data[i]) \/ NvmeShape(json_data[i]) }
      /\ \A k \in 1..Len(analyzed.all) :
            LET row == analyzed.all[k]
            IN /\ row[2] = JStr("ATA") <=> AtaShape(json_data[SeqNo(row)])
               /\ row[2] = JStr("NVMe") <=> NvmeShape(json_data[SeqNo(row)])

C1_Witness ==
    /\ Analyzed
    /\ Len(json_data) = 3
    /\ ~AtaShape(json_data[2]) /\ ~NvmeShape(json_data[2])
    /\ Len(analyzed.all) = 2
    /\ SeqNo(analyzed.all[1]) = 1
    /\ SeqNo(analyzed.all[2]) = 3

(* C2: the HTML file is written only when --html was given: a run that ends
   normally has written the CSV file, and has written the HTML file exactly
   when args.html is set. *)
C2_HtmlOnlyWithFlag ==
    (pc = "exit" /\ ret = "True") =>
      /\ csv_file.written
      /\ html_file.written <=> args_html

(* C3: when every loaded record is a mapping, analyze_data does not raise,
   whichever optional blocks or fields the records lack. *)
C3_ExtractionNeverRaises ==
    (\A i \in 1..Len(json_data) : json_data[i].t = "obj") => pc # "raised"

(* C4: in every extracted row, power_on_hours, temperature_celsius and
   reallocated_sectors are each an integer or the sentinel "N/A". *)
C4_IntegerOrSentinel ==
    Analyzed =>
      \A k \in 1..Len(analyzed.all) : \A j \in 3..5 :
         analyzed.all[k][j].t = "int" \/ analyzed.all[k][j] = NA

(* the attribute table of an ATA record *)
TableOf(d) == d.f.ata_smart_attributes.f.table.l

Matching(d) == { j \in 1..Len(TableOf(d)) : TableOf(d)[j].f.name = JStr(ReallocName) }

FirstMatching(d) == CHOOSE j \in Matching(d) : \A m \in Matching(d) : j <= m

(* C5: the reallocated_sectors of an extracted ATA row is the "value" of the
   first entry of the record's attribute table named Reallocated_Sector_Ct,
   and "N/A" when no entry has that name; of an NVMe row it is "N/A". *)
C5_ReallocatedSectors ==
    Analyzed =>
      \A k \in 1..Len(analyzed.all) :
         LET row == analyzed.all[k]
             d == json_data[SeqNo(row)]
         IN /\ row[2] = JStr("ATA") =>
                 row[5] = IF Matching(d) = {} THEN NA
                          ELSE TableOf(d)[FirstMatching(d)].f.value
            /\ row[2] = JStr("NVMe") => row[5] = NA

C5_Witness ==
    /\ Analyzed
    /\ \E k \in 1..Len(analyzed.all) :
          /\ json_data[SeqNo(analyzed.all[k])] = AtaFlagged
          /\ analyzed.all[k][5] = JInt(3)
    /\ \E k \in 1..Len(analyzed.all) :
          /\ json_data[SeqNo(analyzed.all[k])] = AtaHealthy
          /\ analyzed.all[k][5] = NA
    /\ \E k \in 1..Len(analyzed.all) : analyzed.all[k][2] = JStr("NVMe")

RowsOf(i) == { k \in 1..Len(analyzed.all) : SeqNo(analyzed.all[k]) = i }

(* C6: a record with the ATA key gives one ATA row, also when it has the NVMe
   key too; a record with only the NVMe key gives one NVMe row; a record with
   neither key gives no row in any view; and a batch of mappings none of
   which has either key does not raise. *)
C6_FamilyFirstMatch ==
    /\ Analyzed =>
         /\ \A i \in 1..Len(json_data) :
               LET d == json_data[i]
               IN /\ AtaShape(d) =>
                       /\ Cardinality(RowsOf(i)) = 1
                       /\ \A k \in RowsOf(i) : analyzed.all[k][2] = JStr("ATA")
                  /\ NvmeShape(d) =>
                       /\ Cardinality(RowsOf(i)) = 1
                       /\ \A k \in RowsOf(i) : analyzed.all[k][2] = JStr("NVMe")
                  /\ (~AtaShape(d) /\ ~NvmeShape(d)) => RowsOf(i) = {}
         /\ Len(analyzed.ata) = Cardinality({ i \in 1..Len(json_data) : AtaShape(json_data[i]) })
         /\ Len(analyzed.nvme) = Cardinality({ i \in 1..Len(json_data) : NvmeShape(json_data[i]) })
    /\ (\A i \in 1..Len(json_data) :
           json_data[i].t = "obj" /\ ~AtaShape(json_data[i]) /\ ~NvmeShape(json_data[i]))
         => pc # "raised"

C6_Witness ==
    /\ Analyzed
    /\ \E i \in 1..Len(json_data) : json_data[i] = AtaAndNvme
    /\ \E i \in 1..Len(json_data) : json_data[i] = UnknownShape
    /\ \E i \in 1..Len(json_data) : json_data[i] = NvmeHealthy
    /\ Len(analyzed.ata) = 1
    /\ Len(analyzed.nvme) = 1

PathOf(i) == json_dir \o "/" \o listing[i].name

(* a .json entry that cannot be read, or whose content is not a mapping *)
BadEntry(i) ==
    /\ EndsWith(listing[i].name, ".json")
    /\ listing[i].status # "ok" \/ listing[i].doc.t # "obj"

(* C7: once the directory has been loaded, every .json entry that could not
   be opened, decoded or parsed, or whose content is not a mapping, has an
   error in the log and no record in json_data, and run does not raise on
   account of it. *)
C7_BadFileIsolated ==
    pc \notin {"main", "load"} =>
      /\ \A i \in 1..Len(listing) :
            BadEntry(i) => \E m \in 1..Len(error_log) : error_log[m].path = PathOf(i)
      /\ \A r \in 1..Len(json_data) : json_data[r].t = "obj"

(* C8: when load_json_data returned an empty list, run only prints "No data
   found" and returns False: neither file is ever written, and the missing
   directory has been logged. *)
C8_NoData ==
    (pc \notin {"main", "load"} /\ Len(json_data) = 0) =>
      /\ pc \in {"loaded", "exit"}
      /\ ~csv_file.written
      /\ ~html_file.written
      /\ ~dir_exists => error_log = <<DirNotFound>>
      /\ pc = "exit" =>
            /\ ret = "False"
            /\ stdout = <<Line("No data found. Verify the JSON files directory.")>>

C8_Witness ==
    /\ pc = "exit"
    /\ ret = "False"
    /\ dir_exists
    /\ Len(listing) >= 2
    /\ Len(error_log) >= 1
    /\ ~csv_file.written

(* the style the cell with text s gets under the given column header *)
Style(header, s) ==
    LET n == PyInt(s)
    IN IF s = "N/A" \/ n.raised THEN ""
       ELSE IF header = "Reallocated Sectors" /\ n.val > 0 THEN "warning"
       ELSE IF header = "Power-on Hours" /\ n.val > 30000 THEN "warning"
       ELSE IF header = "Temperature" /\ n.val > 50 THEN "danger"
       ELSE ""

(* C9: every cell under a header is rendered with the text str(cell), and is
   styled only when that text is not "N/A" and parses as an integer:
   "warning" for reallocated sectors > 0 and for power-on hours > 30000,
   "danger" for temperature > 50, plain otherwise. *)
C9_CellStyling ==
    pc = "table_done" =>
      /\ Len(tbl_out) = Len(tbl_data)
      /\ \A r \in 1..Len(tbl_data) :
            /\ Len(tbl_out[r]) = Len(tbl_headers)
            /\ \A j \in 1..Len(tbl_headers) :
                  /\ tbl_out[r][j].text = PyStr(tbl_data[r][j])
                  /\ tbl_out[r][j].class = Style(tbl_headers[j], PyStr(tbl_data[r][j]))

C9_Witness ==
    /\ pc = "table_done"
    /\ tbl_headers = AtaHeaders
    /\ Len(tbl_out) = 2
    /\ tbl_out[1] = << [class |-> "", text |-> "ATA"], [class |-> "warning", text |-> "30001"],
                       [class |-> "", text |-> "N/A"], [class |-> "", text |-> "0"] >>
    /\ tbl_out[2] = << [class |-> "", text |-> "ATA"], [class |-> "warning", text |-> "40000"],
                       [class |-> "danger", text |-> "55"], [class |-> "warning", text |-> "3"] >>

(* the display rows of one family, in the order of the full view *)
Projection(family) ==
    LET sel == SelectSeq(analyzed.all, LAMBDA row : row[2] = JStr(family))
    IN [k \in 1..Len(sel) |-> Tail(sel[k])]

(* C10: every row of the full view is an ATA or an NVMe row; the ATA view and
   the NVMe view are the rows of that family, sequence number dropped, in
   the order of the full view, equal rows kept; so the lengths add up. *)
C10_ViewsConsistent ==
    Analyzed =>
      /\ \A k \in 1..Len(analyzed.all) : analyzed.all[k][2] \in {JStr("ATA"), JStr("NVMe")}
      /\ analyzed.ata = Projection("ATA")
      /\ analyzed.nvme = Projection("NVMe")
      /\ Len(analyzed.all) = Len(analyzed.ata) + Len(analyzed.nvme)

C10_Witness ==
    /\ Analyzed
    /\ Len(analyzed.all) = 3
    /\ analyzed.all[2][2] = JStr("NVMe")
    /\ Len(analyzed.ata) = 2
    /\ analyzed.ata[1] = analyzed.ata[2]

====
